---- MODULE Spec2Model ----
(***************************************************************************)
(* Progress computation and certificate eligibility of the paralegal       *)
(* training backend: quiz submission and scoring (modules/views.py),       *)
(* overall-progress recomputation (progress/models.py) and certificate     *)
(* issuance (progress/views.py), over the relational store they share.     *)
(*                                                                         *)
(* A request handler is a process p with a program counter pc[p]; one      *)
(* step of a handler is one database statement together with the local     *)
(* computation that precedes it (the project opens no transaction, so      *)
(* every statement commits on its own).  Reads that precede a handler's    *)
(* first write are taken in the same step as the last of them.             *)
(*                                                                         *)
(* A FloatField score is kept as the exact fraction num/den in lowest      *)
(* terms; timestamps are readings of the logical clock now.                *)
(***************************************************************************)
EXTENDS Integers, Sequences, FiniteSets, TLC

\* ------------------------------------------------------------------ bounds
MaxAttempts == 3      \* UserQuizAttempt rows the store may hold
MaxRaceAttempts == 2  \* the same, where submissions run concurrently
MaxAnswers == 2       \* answers in one submission
MaxClock == 1         \* the last reading of the clock
MaxProgressRows == 2  \* UserQuizAttempt and ModuleProgress rows, where progress is read
MaxRaceRows == 1      \* ModuleProgress rows, where audio reports run concurrently
MaxOverallRows == 1   \* OverallProgress rows the store may hold
MaxCertificates == 2  \* Certificate rows the store may hold

\* ------------------------------------------------------- program constants
PassThreshold == 80
ReportingModuleNumber == 10
DefaultTotalModules == 10
CodeLength == 12

Users == {"u1", "u2"}
Procs == {"p1", "p2"}
Languages == {"FR", "FON"}

\* The Module rows of the store (the program has 1..10; 10 is the reporting
\* module) and the module ids a request may carry (3 names no row).
ModuleNumbers == {1, 2, 10}
ModuleIdInputs == {1, 2, 3, 10}

\* The training modules of the catalogue: those numbered below 10.
TrainingNumbers == {m \in ModuleNumbers : m < ReportingModuleNumber}

\* string.ascii_uppercase + string.digits
CodeAlphabet ==
  {"A", "B", "C", "D", "E", "F", "G", "H", "I", "J", "K", "L", "M",
   "N", "O", "P", "Q", "R", "S", "T", "U", "V", "W", "X", "Y", "Z",
   "0", "1", "2", "3", "4", "5", "6", "7", "8", "9"}

\* A faulty variant: one character short.
Codes_Short == {[i \in 1..(CodeLength - 1) |-> c] : c \in {"A", "9"}}

\* The verification codes Certificate.save() can draw, as sequences of
\* characters: random.choices(alphabet, k=12), here the two codes that
\* repeat one character of the alphabet.
Codes == {[i \in 1..CodeLength |-> c] : c \in {"A", "9"} \cap CodeAlphabet}

\* The codes a verification request may carry: the codes that can be
\* drawn and a string that is no certificate's code.
BadCode == <<"B", "A", "D", "C", "O", "D", "E", "0", "0", "0", "0">>
CodeInputs == Codes \cup {BadCode}

\* The bodies a client sends to the ModuleProgress detail endpoint.
ProgressUpdates ==
  {[is_completed |-> TRUE],
   [progress_percentage |-> 0],
   [progress_percentage |-> 100, last_audio_position |-> 0],
   [progress_percentage |-> 150]}

\* The percentages and positions an audio player reports.
PercentageInputs == {50, 100}
PositionInputs == {7}

\* The reports of an audio player: a percentage and a position in seconds.
AudioReports ==
  {[progress_percentage |-> 0, current_time |-> 1],
   [progress_percentage |-> 50, current_time |-> 2],
   [progress_percentage |-> 50, current_time |-> 3],
   [progress_percentage |-> 100, current_time |-> 4]}

\* The reports that bring a lesson to its end.
CompletingReports ==
  {r \in AudioReports : r.progress_percentage = 100}

\* The full_name values of a certificate request.
FullNames == {"", "Ada Lovelace"}

\* The modules with an audio_fon file.
AudioModules == {1, 2, 10}

\* The QuizQuestion rows: module, question_type, points, is_active.
QuizQuestion ==
  [q1 |-> [module |-> 1, question_type |-> "MULTIPLE", points |-> 4, is_active |-> TRUE],
   q2 |-> [module |-> 1, question_type |-> "SINGLE", points |-> 1, is_active |-> TRUE],
   q3 |-> [module |-> 2, question_type |-> "SINGLE", points |-> 1, is_active |-> TRUE],
   q4 |-> [module |-> 2, question_type |-> "SINGLE", points |-> 0, is_active |-> FALSE]]

QuestionIds == DOMAIN QuizQuestion

\* The AnswerChoice rows: question, is_correct.
AnswerChoice ==
  [c1 |-> [question |-> "q1", is_correct |-> TRUE],
   c2 |-> [question |-> "q1", is_correct |-> TRUE],
   c3 |-> [question |-> "q1", is_correct |-> FALSE],
   c4 |-> [question |-> "q2", is_correct |-> TRUE],
   c5 |-> [question |-> "q2", is_correct |-> FALSE],
   c6 |-> [question |-> "q3", is_correct |-> TRUE],
   c7 |-> [question |-> "q4", is_correct |-> TRUE]]

ChoiceIds == DOMAIN AnswerChoice

VARIABLES
  lang,        \* CustomUser.preferred_language of every user
  active,      \* the numbers of the Module rows with is_active
  attempts,    \* UserQuizAttempt rows in id order (id = index)
  answers,     \* UserQuizAnswer rows
  moduleProgress, \* ModuleProgress rows (one per user and module)
  overall,     \* the OverallProgress row of every user, or NoRow
  certificates,\* Certificate rows in id order (id = index)
  activities,  \* UserActivity rows
  reported,    \* history: the percentages track_audio_progress has accepted
               \* for every user and module
  now,         \* the last clock reading handed out
  pc,          \* where each handler stands
  loc,         \* each handler's local variables
  resp         \* the last response each handler returned

quizVars == <<attempts, answers>>
progressVars == <<moduleProgress, overall, reported>>
certVars == <<certificates, activities>>
storeVars == <<lang, active, quizVars, progressVars, certVars, now>>
procVars == <<pc, loc, resp>>
vars == <<lang, active, attempts, answers, moduleProgress, overall,
          certificates, activities, reported, now, pc, loc, resp>>

\* ------------------------------------------------------------- arithmetic
RECURSIVE GCD(_, _)
GCD(a, b) == IF b = 0 THEN a ELSE GCD(b, a % b)

\* The fraction n/d (d > 0) in lowest terms.
Frac(n, d) == LET g == GCD(n, d) IN [num |-> n \div g, den |-> d \div g]

FracGeq(f, k) == f.num >= k * f.den
FracLess(f, g) == f.num * g.den < g.num * f.den

RECURSIVE SumOver(_, _)
\* The sum of f[x] over the finite set S.
SumOver(S, f) ==
  IF S = {} THEN 0
  ELSE LET x == CHOOSE y \in S : TRUE IN f[x] + SumOver(S \ {x}, f)

\* A reading of the clock: time has advanced since the last reading, or not.
ClockReadings == {t \in {now, now + 1} : t <= MaxClock}

\* ---------------------------------------------------------------- queries
\* Module.objects.filter(is_active=True, number__lt=10)
TrainingModules == {m \in active : m < ReportingModuleNumber}

\* Module.is_reporting_module
IsReportingModule(m) == m = 10

\* Module.get_quiz_questions(): the module's active questions
GetQuizQuestions(m) ==
  {q \in QuestionIds : QuizQuestion[q].module = m /\ QuizQuestion[q].is_active}

\* question.answer_choices
ChoicesOf(q) == {c \in ChoiceIds : AnswerChoice[c].question = q}

\* QuizQuestion.get_correct_answers()
GetCorrectAnswers(q) == {c \in ChoicesOf(q) : AnswerChoice[c].is_correct}

\* The ids of the attempts of (u, m).
AttemptsOf(u, m) ==
  {i \in DOMAIN attempts : attempts[i].user = u /\ attempts[i].module = m}

\* ------------------------------------------------- QuizSubmissionSerializer
\* validate_module_id: the module exists, is active and is not module 10.
ValidateModuleId(mid) ==
  /\ mid \in ModuleNumbers
  /\ mid \in active
  /\ ~IsReportingModule(mid)

\* validate_answers: not empty; every selected choice belongs to its
\* question; a SINGLE question carries at most one choice.
ValidateAnswers(ans) ==
  /\ Len(ans) > 0
  /\ \A i \in DOMAIN ans :
       /\ ans[i].selected_choices \subseteq ChoicesOf(ans[i].question)
       /\ ~(/\ QuizQuestion[ans[i].question].question_type = "SINGLE"
            /\ Cardinality(ans[i].selected_choices) > 1)

SerializerIsValid(mid, ans) == ValidateModuleId(mid) /\ ValidateAnswers(ans)

\* ------------------------------------------------------------ UserQuizAttempt
\* A faulty variant: the threshold itself does not pass.
UserQuizAttemptSave_Strict(row) ==
  [row EXCEPT !.is_passed = FracLess(Frac(PassThreshold, 1), row.score)]

\* UserQuizAttempt.save(): is_passed is recomputed from the score.
UserQuizAttemptSave(row) ==
  [row EXCEPT !.is_passed = FracGeq(row.score, PassThreshold)]

\* A faulty variant: the table carries no uniqueness constraint.
AttemptUniqueViolated_None(row) == FALSE

\* unique_together = ['user', 'module', 'attempt_number']
AttemptUniqueViolated(row) ==
  \E i \in DOMAIN attempts :
    /\ attempts[i].user = row.user
    /\ attempts[i].module = row.module
    /\ attempts[i].attempt_number = row.attempt_number

\* UserQuizAnswer: unique_together = ['attempt', 'question']
AnswerUniqueViolated(row) ==
  \E a \in answers : a.attempt = row.attempt /\ a.question = row.question

\* A faulty variant: the last attempt is looked up by user alone.
NextAttemptNumber_AnyModule(u, m) ==
  LET mine == {i \in DOMAIN attempts : attempts[i].user = u}
  IN IF mine = {} THEN 1
     ELSE LET last == CHOOSE i \in mine :
                        \A j \in mine :
                          attempts[j].attempt_number <= attempts[i].attempt_number
          IN attempts[last].attempt_number + 1

\* The attempt number of a new attempt of (u, m): the last one plus one.
NextAttemptNumber(u, m) ==
  IF AttemptsOf(u, m) = {} THEN 1
  ELSE LET last == CHOOSE i \in AttemptsOf(u, m) :
                     \A j \in AttemptsOf(u, m) :
                       attempts[j].attempt_number <= attempts[i].attempt_number
       IN attempts[last].attempt_number + 1

\* A faulty variant: a non-empty selection of correct choices only is correct.
IsCorrect_Partial(q, selected) ==
  selected # {} /\ selected \subseteq GetCorrectAnswers(q)

\* An answer is correct iff the selected ids are exactly the correct ids.
IsCorrect(q, selected) == GetCorrectAnswers(q) = selected

PointsEarned(q, selected) ==
  IF IsCorrect(q, selected) THEN QuizQuestion[q].points ELSE 0

\* A faulty variant: the division is an integer division.
ScorePercentage_IntDiv(earned, possible) ==
  IF possible > 0 THEN Frac((earned \div possible) * 100, 1) ELSE Frac(0, 1)

\* (total_points_earned / total_points_possible) * 100, or 0
ScorePercentage(earned, possible) ==
  IF possible > 0 THEN Frac(earned * 100, possible) ELSE Frac(0, 1)

\* ------------------------------------------------------------------- state
NoResponse == [status |-> 0]
NoRow == [exists |-> FALSE]
\* A nullable DateTimeField: {} is null, {t} is the time t.
Null == {}
Idle == [op |-> "none"]

Respond(p, r) ==
  /\ pc' = [pc EXCEPT ![p] = "idle"]
  /\ loc' = [loc EXCEPT ![p] = Idle]
  /\ resp' = [resp EXCEPT ![p] = r]

\* The client takes the response of its request.
ReceiveResponse(p) ==
  /\ pc[p] = "idle"
  /\ resp[p] # NoResponse
  /\ resp' = [resp EXCEPT ![p] = NoResponse]
  /\ UNCHANGED <<storeVars, pc, loc>>

\* The handlers that have read the last attempt and not yet inserted theirs.
AboutToInsert == {p \in Procs : pc[p] = "sq_create"}

Init ==
  /\ lang \in [Users -> Languages]
  /\ active = ModuleNumbers
  /\ attempts = <<>>
  /\ answers = {}
  /\ moduleProgress = {}
  /\ overall = [u \in Users |-> NoRow]
  /\ certificates = <<>>
  /\ activities = {}
  /\ reported = [u \in Users |-> [m \in ModuleNumbers |-> {}]]
  /\ now = 0
  /\ pc = [p \in Procs |-> "idle"]
  /\ loc = [p \in Procs |-> Idle]
  /\ resp = [p \in Procs |-> NoResponse]

\* ------------------------------------------------------------- submit_quiz
\* Validation, the language check, the read of the last attempt and the
\* check that the module has questions.
SubmitQuizStart(p, u, mid, ans) ==
  /\ pc[p] = "idle"
  /\ UNCHANGED storeVars
  /\ IF ~SerializerIsValid(mid, ans)
       THEN Respond(p, [status |-> 400, op |-> "submit_quiz", error |-> "validation"])
     ELSE IF lang[u] # "FR"
       THEN Respond(p, [status |-> 400, op |-> "submit_quiz", error |-> "language"])
     ELSE IF GetQuizQuestions(mid) = {}
       THEN Respond(p, [status |-> 400, op |-> "submit_quiz", error |-> "no_questions"])
     ELSE /\ pc' = [pc EXCEPT ![p] = "sq_create"]
          /\ loc' = [loc EXCEPT ![p] =
                       [op |-> "submit_quiz", user |-> u, module |-> mid,
                        answers |-> ans,
                        attempt_number |-> NextAttemptNumber(u, mid)]]
          /\ resp' = [resp EXCEPT ![p] = NoResponse]

\* UserQuizAttempt.objects.create(..., score=0, correct_answers=0)
SubmitQuizCreate(p) ==
  /\ pc[p] = "sq_create"
  /\ LET l == loc[p]
         fresh == [user |-> l.user, module |-> l.module,
                   attempt_number |-> l.attempt_number,
                   score |-> Frac(0, 1),
                   total_questions |-> Cardinality(GetQuizQuestions(l.module)),
                   correct_answers |-> 0,
                   is_passed |-> FALSE,
                   completed_at |-> 0]
     IN IF AttemptUniqueViolated(fresh)
          THEN /\ Respond(p, [status |-> 500, op |-> "submit_quiz",
                              error |-> "IntegrityError(attempt_number)"])
               /\ UNCHANGED storeVars
        ELSE \E t \in ClockReadings :
               /\ attempts' = Append(attempts,
                                [UserQuizAttemptSave(fresh) EXCEPT !.completed_at = t])
               /\ now' = t
               /\ pc' = [pc EXCEPT ![p] = "sq_answers"]
               /\ loc' = [loc EXCEPT ![p] =
                            [op |-> "submit_quiz", user |-> l.user,
                             module |-> l.module, answers |-> l.answers,
                             attempt |-> Len(attempts) + 1, i |-> 1,
                             correct_answers |-> 0,
                             total_points_possible |-> 0,
                             total_points_earned |-> 0]]
               /\ UNCHANGED <<lang, active, answers, progressVars, certVars, resp>>

\* One turn of the loop over data['answers'].
SubmitQuizAnswer(p) ==
  /\ pc[p] = "sq_answers"
  /\ loc[p].i <= Len(loc[p].answers)
  /\ LET l == loc[p]
         question == l.answers[l.i].question
         selected == l.answers[l.i].selected_choices
         row == [attempt |-> l.attempt, question |-> question,
                 selected_choices |-> selected,
                 is_correct |-> IsCorrect(question, selected),
                 points_earned |-> PointsEarned(question, selected)]
     IN IF AnswerUniqueViolated(row)
          THEN /\ Respond(p, [status |-> 500, op |-> "submit_quiz",
                              error |-> "IntegrityError(question)"])
               /\ UNCHANGED storeVars
        ELSE /\ answers' = answers \cup {row}
             /\ loc' = [loc EXCEPT ![p] =
                          [l EXCEPT !.i = l.i + 1,
                                    !.correct_answers =
                                       IF row.is_correct THEN @ + 1 ELSE @,
                                    !.total_points_possible =
                                       @ + QuizQuestion[question].points,
                                    !.total_points_earned = @ + row.points_earned]]
             /\ UNCHANGED <<lang, active, attempts, progressVars, certVars, now, pc, resp>>

\* quiz_attempt.save() with the final score, and the 201 response.
SubmitQuizFinish(p) ==
  /\ pc[p] = "sq_answers"
  /\ loc[p].i > Len(loc[p].answers)
  /\ LET l == loc[p]
         row == UserQuizAttemptSave(
                  [attempts[l.attempt] EXCEPT
                     !.correct_answers = l.correct_answers,
                     !.score = ScorePercentage(l.total_points_earned,
                                               l.total_points_possible)])
     IN /\ attempts' = [attempts EXCEPT ![l.attempt] = row]
        /\ Respond(p, [status |-> 201, op |-> "submit_quiz", attempt |-> l.attempt])
        /\ UNCHANGED <<lang, active, answers, progressVars, certVars, now>>

\* ---------------------------------------------------- track_audio_progress
\* ModuleProgress.save(): completed_at follows is_completed.
ModuleProgressSave(row, t) ==
  IF row.is_completed /\ row.completed_at = Null
    THEN [row EXCEPT !.completed_at = {t}]
  ELSE IF ~row.is_completed
    THEN [row EXCEPT !.completed_at = Null]
  ELSE row

\* The ModuleProgress row of (u, m), if there is one.
ProgressRows(u, m) == {r \in moduleProgress : r.user = u /\ r.module = m}

\* The store after row is written over the row of its (user, module).
StoreProgress(row) ==
  (moduleProgress \ ProgressRows(row.user, row.module)) \cup {row}

\* AudioProgressSerializer: the module exists, is active and has an audio
\* file; the percentage lies in 0..100; the position is not negative.
AudioSerializerIsValid(mid, pct, pos) ==
  /\ mid \in ModuleNumbers /\ mid \in active /\ mid \in AudioModules
  /\ pct >= 0 /\ pct <= 100
  /\ pos >= 0

\* Validation, the language check and ModuleProgress.objects.get_or_create.
TrackAudioStart(p, u, mid, pct, pos) ==
  /\ pc[p] = "idle"
  /\ UNCHANGED <<lang, active, quizVars, overall, certVars, now>>
  /\ IF ~AudioSerializerIsValid(mid, pct, pos)
       THEN /\ Respond(p, [status |-> 400, op |-> "track_audio_progress",
                           error |-> "validation"])
            /\ UNCHANGED <<moduleProgress, reported>>
     ELSE IF lang[u] # "FON"
       THEN /\ Respond(p, [status |-> 400, op |-> "track_audio_progress",
                           error |-> "language"])
            /\ UNCHANGED <<moduleProgress, reported>>
     ELSE LET created == ProgressRows(u, mid) = {}
              fresh == ModuleProgressSave(
                         [user |-> u, module |-> mid, progress_percentage |-> pct,
                          is_completed |-> FALSE, last_audio_position |-> pos,
                          total_listening_time |-> 0, completed_at |-> Null], now)
              progress == IF created THEN fresh
                          ELSE CHOOSE r \in ProgressRows(u, mid) : TRUE
          IN /\ moduleProgress' = IF created THEN moduleProgress \cup {fresh}
                                  ELSE moduleProgress
             /\ reported' = [reported EXCEPT ![u][mid] = @ \cup {pct}]
             /\ pc' = [pc EXCEPT ![p] = "ta_update"]
             /\ loc' = [loc EXCEPT ![p] =
                          [op |-> "track_audio_progress", user |-> u,
                           module |-> mid, pct |-> pct, pos |-> pos,
                           progress |-> progress, created |-> created]]
             /\ resp' = [resp EXCEPT ![p] = NoResponse]

\* A faulty variant: every report counts as an advance.
ProgressHasAdvanced_Always(pct, stored) == TRUE

\* data['progress_percentage'] > progress.progress_percentage
ProgressHasAdvanced(pct, stored) == pct > stored

\* The row is written only if the progress has advanced.
TrackAudioUpdate(p) ==
  /\ pc[p] = "ta_update"
  /\ LET l == loc[p]
     IN IF ~l.created /\ ProgressHasAdvanced(l.pct, l.progress.progress_percentage)
          THEN LET row == ModuleProgressSave(
                            [l.progress EXCEPT !.progress_percentage = l.pct,
                                               !.last_audio_position = l.pos], now)
               IN /\ moduleProgress' = StoreProgress(row)
                  /\ loc' = [loc EXCEPT ![p] = [l EXCEPT !.progress = row]]
        ELSE UNCHANGED <<moduleProgress, loc>>
  /\ pc' = [pc EXCEPT ![p] = "ta_complete"]
  /\ UNCHANGED <<lang, active, quizVars, overall, reported, certVars, now, resp>>

\* A faulty variant: 100 itself does not complete.
CompletionReached_Above(pct) == pct > 100

\* data['progress_percentage'] >= 100
CompletionReached(pct) == pct >= 100

\* At 100 the row is marked completed; the response.
TrackAudioComplete(p) ==
  /\ pc[p] = "ta_complete"
  /\ LET l == loc[p]
     IN IF CompletionReached(l.pct)
          THEN \E t \in ClockReadings :
                 LET row == ModuleProgressSave(
                              [l.progress EXCEPT !.is_completed = TRUE,
                                                 !.completed_at = {t}], t)
                 IN /\ moduleProgress' = StoreProgress(row)
                    /\ now' = t
                    /\ Respond(p, [status |-> 200, op |-> "track_audio_progress",
                                   progress_percentage |-> row.progress_percentage,
                                   is_completed |-> row.is_completed])
        ELSE /\ UNCHANGED <<moduleProgress, now>>
             /\ Respond(p, [status |-> 200, op |-> "track_audio_progress",
                            progress_percentage |-> l.progress.progress_percentage,
                            is_completed |-> l.progress.is_completed])
  /\ UNCHANGED <<lang, active, quizVars, overall, reported, certVars>>

\* ------------------------------------------- the ModuleProgress endpoints
\* The row ModuleProgress.objects.get_or_create(user=user, module=module)
\* creates: the defaults of the model.
DefaultModuleProgress(u, mid) ==
  [user |-> u, module |-> mid, progress_percentage |-> 0,
   is_completed |-> FALSE, last_audio_position |-> 0,
   total_listening_time |-> 0, completed_at |-> Null]

\* get_object_or_404(Module, id=module_id, is_active=True)
ModuleIsFound(mid) == mid \in ModuleNumbers /\ mid \in active

\* ModuleProgressSerializer on a PUT or PATCH body: the writable fields are
\* progress_percentage (0..100), is_completed and last_audio_position (>= 0).
ModuleProgressSerializerIsValid(data) ==
  /\ DOMAIN data \subseteq {"progress_percentage", "is_completed", "last_audio_position"}
  /\ "progress_percentage" \in DOMAIN data =>
       data.progress_percentage >= 0 /\ data.progress_percentage <= 100
  /\ "last_audio_position" \in DOMAIN data => data.last_audio_position >= 0

\* ModuleProgressDetailView PUT/PATCH: get_object() gets or creates the row,
\* the serializer sets the fields of the body on it and saves it.
UpdateModuleProgress(u, mid, data) ==
  /\ ModuleIsFound(mid)
  /\ ModuleProgressSerializerIsValid(data)
  /\ LET progress == IF ProgressRows(u, mid) = {} THEN DefaultModuleProgress(u, mid)
                     ELSE CHOOSE r \in ProgressRows(u, mid) : TRUE
         updated == [f \in DOMAIN progress |->
                       IF f \in DOMAIN data THEN data[f] ELSE progress[f]]
     IN \E t \in ClockReadings :
          /\ moduleProgress' = StoreProgress(ModuleProgressSave(updated, t))
          /\ now' = t
  /\ UNCHANGED <<lang, active, quizVars, overall, reported, certVars, procVars>>

\* mark_module_started: get_or_create of the row and a MODULE_VIEW activity.
MarkModuleStarted(u, mid) ==
  /\ ModuleIsFound(mid)
  /\ moduleProgress' = IF ProgressRows(u, mid) = {}
                         THEN moduleProgress \cup {DefaultModuleProgress(u, mid)}
                       ELSE moduleProgress
  /\ activities' = activities \cup
       {[user |-> u, activity_type |-> "MODULE_VIEW", module |-> mid]}
  /\ UNCHANGED <<lang, active, quizVars, overall, reported, certificates, now, procVars>>

\* ---------------------------------------------------------- OverallProgress
\* UserQuizAttempt.objects.filter(user=user, module__in=training_modules,
\* is_passed=True).values_list('module', flat=True).distinct(): the model's
\* default ordering ['-completed_at'] joins the selected columns, so DISTINCT
\* applies to (module, completed_at); the list has one entry per such pair.
PassedModules(u) ==
  {<<attempts[i].module, attempts[i].completed_at>> :
     i \in {j \in DOMAIN attempts : /\ attempts[j].user = u
                                    /\ attempts[j].module \in TrainingModules
                                    /\ attempts[j].is_passed}}

\* The highest score among the attempts ids.
BestScore(ids) ==
  LET best == CHOOSE i \in ids :
                \A j \in ids : ~FracLess(attempts[i].score, attempts[j].score)
  IN attempts[best].score

RECURSIVE FracSum(_)
\* The sum of a finite set of <<key, fraction>> pairs.
FracSum(S) ==
  IF S = {} THEN Frac(0, 1)
  ELSE LET x == CHOOSE y \in S : TRUE
           r == FracSum(S \ {x})
       IN Frac(x[2].num * r.den + r.num * x[2].den, x[2].den * r.den)

\* sum(scores) / len(scores) of a non-empty set of <<key, fraction>> pairs.
FracMean(S) ==
  LET t == FracSum(S) IN Frac(t.num, t.den * Cardinality(S))

\* A faulty variant: the new percentage is averaged with the previous one.
CompletionPercentage_Blend(completed_count, total, previous) ==
  IF total > 0
    THEN Frac(previous.num * total + 100 * completed_count * previous.den,
              2 * total * previous.den)
  ELSE previous

\* if self.total_modules > 0: self.completion_percentage = ...
CompletionPercentage(completed_count, total, previous) ==
  IF total > 0 THEN Frac(completed_count * 100, total) ELSE previous

\* A faulty variant: completed_at follows can_get_certificate.
CompletedAtAfter_Follow(can, completed_at, t) ==
  IF can THEN {t} ELSE Null

\* if self.can_get_certificate and not self.completed_at: ... = timezone.now()
CompletedAtAfter(can, completed_at, t) ==
  IF can /\ completed_at = Null THEN {t} ELSE completed_at

\* OverallProgress.update_progress() on row, for its user u at time t.
UpdateProgress(row, u, t) ==
  LET training == TrainingModules
      mine == {i \in DOMAIN attempts :
                 attempts[i].user = u /\ attempts[i].module \in training}
      best_attempts ==
        {<<m, BestScore({i \in mine : attempts[i].module = m})>> :
           m \in {n \in training : \E i \in mine : attempts[i].module = n}}
      completed_count ==
        IF lang[u] = "FR" THEN Cardinality(PassedModules(u))
        ELSE Cardinality({r \in moduleProgress :
                            r.user = u /\ r.module \in training /\ r.is_completed})
      total == Cardinality(training)
      can == completed_count = total
      total_time == SumOver({r \in moduleProgress : r.user = u},
                            [r \in moduleProgress |-> r.total_listening_time])
  IN [row EXCEPT
        !.average_quiz_score =
           IF lang[u] = "FR" /\ best_attempts # {} THEN {FracMean(best_attempts)} ELSE @,
        !.total_quiz_attempts = IF lang[u] = "FR" THEN Cardinality(mine) ELSE @,
        !.total_audio_time = IF lang[u] = "FR" THEN @ ELSE total_time,
        !.completed_modules = completed_count,
        !.total_modules = total,
        !.completion_percentage = CompletionPercentage(completed_count, total, @),
        !.can_get_certificate = can,
        !.completed_at = CompletedAtAfter(can, @, t)]

\* OverallProgress.get_next_module() for user u: the first active training
\* module, by number, whose number is not among the modules the user has
\* passed (French track) or listened to the end (Fon track); Null if none.
GetNextModule(u) ==
  LET done == IF lang[u] = "FR"
                THEN {attempts[i].module :
                        i \in {j \in DOMAIN attempts :
                                 attempts[j].user = u /\ attempts[j].is_passed}}
              ELSE {r.module : r \in {x \in moduleProgress :
                                         x.user = u /\ x.is_completed}}
      left == TrainingModules \ done
  IN {m \in left : \A n \in left : m <= n}

\* The row OverallProgress.objects.get_or_create(user=user) creates.
DefaultOverall ==
  [exists |-> TRUE, total_modules |-> DefaultTotalModules, completed_modules |-> 0,
   completion_percentage |-> Frac(0, 1), total_quiz_attempts |-> 0,
   average_quiz_score |-> Null, total_audio_time |-> 0,
   can_get_certificate |-> FALSE, certificate_requested |-> FALSE,
   completed_at |-> Null]

\* UserProgressView.get_object (get_overall_progress): get_or_create, then
\* update_progress.
GetOverallProgress(u) ==
  /\ \E t \in ClockReadings :
       LET row == IF overall[u].exists THEN overall[u] ELSE DefaultOverall
           new == UpdateProgress(row, u, t)
       IN /\ overall' = [overall EXCEPT ![u] = new]
          /\ now' = IF new.completed_at # row.completed_at THEN t ELSE now
  /\ UNCHANGED <<lang, active, quizVars, moduleProgress, reported, certVars, procVars>>

\* UserProfileUpdateView: the user chooses the other language.
UpdateProfile(u, l) ==
  /\ lang[u] # l
  /\ lang' = [lang EXCEPT ![u] = l]
  /\ UNCHANGED <<active, quizVars, progressVars, certVars, now, procVars>>

\* An administrator sets Module.is_active of module m to b.
SetModuleActive(m, b) ==
  /\ (m \in active) # b
  /\ active' = IF b THEN active \cup {m} ELSE active \ {m}
  /\ UNCHANGED <<lang, quizVars, progressVars, certVars, now, procVars>>

\* ------------------------------------------------------ request_certificate
\* A faulty variant: the look-up finds nothing.
ValidCertificates_None(u) == {}

\* Certificate.objects.filter(user=user, is_valid=True).
ValidCertificates(u) ==
  {i \in DOMAIN certificates : certificates[i].user = u /\ certificates[i].is_valid}

\* .first() under Meta.ordering ['-completion_date']: a row of the set with
\* the latest completion_date; the database chooses among equal dates.
FirstByCompletionDate(ids) ==
  {i \in ids : \A j \in ids : certificates[j].completion_date <= certificates[i].completion_date}

\* FonUserProgressSerializer.to_representation(user).
FonUserProgress(u) ==
  LET completed == Cardinality({r \in moduleProgress :
                      r.user = u /\ r.module \in TrainingModules /\ r.is_completed})
      total == Cardinality(TrainingModules)
  IN [status |-> 200, op |-> "request_certificate", kind |-> "fon",
      completed_modules |-> completed, total_modules |-> total,
      is_eligible |-> completed = total]

\* CertificateRequestSerializer: full_name is required and not blank, then
\* validate(): the list of passed modules is at least as long as the list
\* of training modules, for a user of the French track.
CertificateRequestIsValid(u, full_name) ==
  /\ full_name # ""
  /\ lang[u] = "FR"
  /\ ~(Cardinality(PassedModules(u)) < Cardinality(TrainingModules))

\* best_scores: the best passed score of each training module that has one.
BestScores(u) ==
  LET passed == {i \in DOMAIN attempts : attempts[i].user = u /\ attempts[i].is_passed}
  IN {<<m, BestScore({i \in passed : attempts[i].module = m})>> :
        m \in {n \in TrainingModules : \E i \in passed : attempts[i].module = n}}

\* verification_code is unique.
CodeUniqueViolated(code) ==
  \E i \in DOMAIN certificates : certificates[i].verification_code = code

\* A faulty variant: every user passes for a French-track user.
OnFrenchTrack_Always(u) == TRUE

\* user.preferred_language == 'FR'
OnFrenchTrack(u) == lang[u] = "FR"

\* The language check and the look-up of a valid certificate.
RequestCertificateStart(p, u, full_name) ==
  /\ pc[p] = "idle"
  /\ UNCHANGED storeVars
  /\ IF ~OnFrenchTrack(u)
       THEN Respond(p, FonUserProgress(u))
     ELSE IF ValidCertificates(u) # {}
       THEN \E c \in FirstByCompletionDate(ValidCertificates(u)) :
              Respond(p, [status |-> 200, op |-> "request_certificate",
                          kind |-> "existing", certificate |-> c])
     ELSE /\ pc' = [pc EXCEPT ![p] = "rc_validate"]
          /\ loc' = [loc EXCEPT ![p] = [op |-> "request_certificate", user |-> u,
                                        full_name |-> full_name]]
          /\ resp' = [resp EXCEPT ![p] = NoResponse]

\* The validation of the request and the computation of the average score.
RequestCertificateValidate(p) ==
  /\ pc[p] = "rc_validate"
  /\ UNCHANGED storeVars
  /\ LET l == loc[p]
         best_scores == BestScores(l.user)
     IN IF ~CertificateRequestIsValid(l.user, l.full_name)
          THEN Respond(p, [status |-> 400, op |-> "request_certificate",
                           error |-> "validation"])
        ELSE /\ pc' = [pc EXCEPT ![p] = "rc_create"]
             /\ loc' = [loc EXCEPT ![p] =
                          l @@
                          [total_modules_completed |-> Cardinality(best_scores),
                           average_score |-> IF best_scores # {}
                                               THEN FracMean(best_scores)
                                             ELSE Frac(0, 1)]]
             /\ UNCHANGED resp

\* Certificate.objects.create: save() draws the verification code.
RequestCertificateCreate(p) ==
  /\ pc[p] = "rc_create"
  /\ UNCHANGED <<lang, active, quizVars, progressVars, activities>>
  /\ LET l == loc[p]
     IN \E code \in Codes :
          IF CodeUniqueViolated(code)
            THEN /\ Respond(p, [status |-> 500, op |-> "request_certificate",
                                error |-> "IntegrityError(verification_code)"])
                 /\ UNCHANGED <<certificates, now>>
          ELSE \E t \in ClockReadings :
                 /\ certificates' = Append(certificates,
                      [user |-> l.user, verification_code |-> code,
                       full_name |-> l.full_name, completion_date |-> t,
                       total_modules_completed |-> l.total_modules_completed,
                       average_score |-> l.average_score, is_valid |-> TRUE])
                 /\ now' = t
                 /\ pc' = [pc EXCEPT ![p] = "rc_get"]
                 /\ loc' = [loc EXCEPT ![p] =
                              [op |-> "request_certificate", user |-> l.user,
                               certificate |-> Len(certificates) + 1]]
                 /\ UNCHANGED resp

\* OverallProgress.objects.get(user=user).
RequestCertificateGet(p) ==
  /\ pc[p] = "rc_get"
  /\ UNCHANGED storeVars
  /\ LET l == loc[p]
     IN IF ~overall[l.user].exists
          THEN Respond(p, [status |-> 500, op |-> "request_certificate",
                           error |-> "OverallProgress.DoesNotExist"])
        ELSE /\ pc' = [pc EXCEPT ![p] = "rc_save"]
             /\ loc' = [loc EXCEPT ![p] = l @@ [overall_progress |-> overall[l.user]]]
             /\ UNCHANGED resp

\* overall_progress.certificate_requested = True; overall_progress.save().
RequestCertificateSave(p) ==
  /\ pc[p] = "rc_save"
  /\ LET l == loc[p]
     IN /\ overall' = [overall EXCEPT ![l.user] =
                         [l.overall_progress EXCEPT !.certificate_requested = TRUE]]
        /\ loc' = [loc EXCEPT ![p] = [op |-> "request_certificate", user |-> l.user,
                                      certificate |-> l.certificate]]
  /\ pc' = [pc EXCEPT ![p] = "rc_activity"]
  /\ UNCHANGED <<lang, active, quizVars, moduleProgress, reported, certVars, now, resp>>

\* UserActivity.objects.create and the response.
RequestCertificateActivity(p) ==
  /\ pc[p] = "rc_activity"
  /\ LET l == loc[p]
     IN /\ activities' = activities \cup
             {[user |-> l.user, activity_type |-> "CERTIFICATE_REQUEST",
               certificate |-> l.certificate]}
        /\ Respond(p, [status |-> 201, op |-> "request_certificate",
                       kind |-> "created", certificate |-> l.certificate])
  /\ UNCHANGED <<lang, active, quizVars, progressVars, certificates, now>>

\* CertificateAdmin.invalidate_certificates on the selected certificates.
InvalidateCertificates(ids) ==
  /\ \E i \in ids : certificates[i].is_valid
  /\ certificates' = [i \in DOMAIN certificates |->
                        IF i \in ids THEN [certificates[i] EXCEPT !.is_valid = FALSE]
                        ELSE certificates[i]]
  /\ UNCHANGED <<lang, active, quizVars, progressVars, activities, now, procVars>>

\* A faulty variant: the look-up ignores is_valid.
CertificateByCode_AnyValidity(code) ==
  {i \in DOMAIN certificates : certificates[i].verification_code = code}

\* Certificate.objects.get(verification_code=verification_code, is_valid=True)
CertificateByCode(code) ==
  {i \in DOMAIN certificates : /\ certificates[i].verification_code = code
                               /\ certificates[i].is_valid}

\* verify_certificate: the certificate's fields, or 404 on DoesNotExist.
\* The response is kept with the code of the request's URL.
VerifyCertificate(p, code) ==
  /\ pc[p] = "idle"
  /\ UNCHANGED storeVars
  /\ IF CertificateByCode(code) = {}
       THEN Respond(p, [status |-> 404, op |-> "verify_certificate",
                        requested_code |-> code, is_valid |-> FALSE])
     ELSE \E i \in CertificateByCode(code) :
            Respond(p, [status |-> 200, op |-> "verify_certificate",
                        requested_code |-> code, is_valid |-> TRUE,
                        certificate |->
                          [full_name |-> certificates[i].full_name,
                           completion_date |-> certificates[i].completion_date,
                           total_modules_completed |->
                             certificates[i].total_modules_completed,
                           average_score |-> certificates[i].average_score,
                           verification_code |-> certificates[i].verification_code]])

\* -------------------------------------------------------------- the inputs
\* The selections a request may carry for a question: any set of choices of
\* one question (the question's own or another's).
SelectionInputs == UNION {SUBSET ChoicesOf(q) : q \in QuestionIds}

AnswerInputs ==
  {[question |-> q, selected_choices |-> s] : q \in QuestionIds, s \in SelectionInputs}

Answer(q, s) == [question |-> q, selected_choices |-> s]

\* The submissions of a client that answers every question of the module:
\* module 1 all right (100), q2 wrong (80), q1 partly right (20); module 2
\* right (100).
UsualSubmissions ==
  {[module_id |-> 1, answers |-> <<Answer("q1", {"c1", "c2"}), Answer("q2", {"c4"})>>],
   [module_id |-> 1, answers |-> <<Answer("q1", {"c1", "c2"}), Answer("q2", {"c5"})>>],
   [module_id |-> 1, answers |-> <<Answer("q1", {"c1"}), Answer("q2", {"c4"})>>],
   [module_id |-> 2, answers |-> <<Answer("q3", {"c6"})>>]}

\* A passed and a failed submission for module 1, a passed one for module 2.
PassOrFailSubmissions ==
  {[module_id |-> 1, answers |-> <<Answer("q1", {"c1", "c2"}), Answer("q2", {"c4"})>>],
   [module_id |-> 1, answers |-> <<Answer("q1", {"c1"}), Answer("q2", {"c4"})>>],
   [module_id |-> 2, answers |-> <<Answer("q3", {"c6"})>>]}

\* The passed submissions among them.
PassingSubmissions ==
  {[module_id |-> 1, answers |-> <<Answer("q1", {"c1", "c2"}), Answer("q2", {"c4"})>>],
   [module_id |-> 2, answers |-> <<Answer("q3", {"c6"})>>]}

SeqsUpTo(S, n) == UNION {[1..k -> S] : k \in 0..n}

\* ---------------------------------------------------------- specifications
\* No handler is in flight and every response has been received.
Quiet == \A p \in Procs : pc[p] = "idle" /\ resp[p] = NoResponse

\* The store has room for the attempt of one more submission.
RoomForAttempt(n) == Len(attempts) + Cardinality(AboutToInsert) < n

QuizStep(p) ==
  \/ SubmitQuizCreate(p)
  \/ SubmitQuizAnswer(p)
  \/ SubmitQuizFinish(p)

\* Concurrent quiz submissions.
QuizNext ==
  \E p \in Procs :
    \/ /\ RoomForAttempt(MaxRaceAttempts)
       /\ \E u \in Users, s \in UsualSubmissions :
            SubmitQuizStart(p, u, s.module_id, s.answers)
    \/ QuizStep(p)

QuizSpec == Init /\ [][QuizNext]_vars

\* Quiz submissions one after the other.
QuizSeqNext ==
  \E p \in Procs :
    \/ /\ Quiet
       /\ RoomForAttempt(MaxAttempts)
       /\ \E u \in Users, s \in UsualSubmissions :
            SubmitQuizStart(p, u, s.module_id, s.answers)
    \/ QuizStep(p)
    \/ ReceiveResponse(p)

QuizSeqSpec == Init /\ [][QuizSeqNext]_vars

\* One quiz submission, with any module id and any answers.
ScoreNext ==
  \/ /\ Quiet
     /\ attempts = <<>>
     /\ \E u \in Users, mid \in ModuleIdInputs, ans \in SeqsUpTo(AnswerInputs, MaxAnswers) :
          SubmitQuizStart("p1", u, mid, ans)
  \/ QuizStep("p1")

ScoreSpec == Init /\ [][ScoreNext]_vars

\* The store has room for one more UserQuizAttempt or ModuleProgress row.
RoomForProgress == Len(attempts) + Cardinality(moduleProgress) < MaxProgressRows

\* The store has room for one more OverallProgress row.
RoomForOverall == Cardinality({u \in Users : overall[u].exists}) < MaxOverallRows

TrackAudioStep(p) ==
  \/ TrackAudioUpdate(p)
  \/ TrackAudioComplete(p)

\* Quiz submissions, audio tracking, profile and catalogue changes and
\* progress reads, one request after the other.
ProgressNext ==
  \/ /\ Quiet
     /\ RoomForProgress
     /\ \E u \in Users, s \in PassOrFailSubmissions :
          SubmitQuizStart("p1", u, s.module_id, s.answers)
  \/ QuizStep("p1")
  \/ /\ Quiet
     /\ RoomForProgress
     /\ \E u \in Users, mid \in ModuleIdInputs, pct \in PercentageInputs,
           pos \in PositionInputs :
          TrackAudioStart("p1", u, mid, pct, pos)
  \/ TrackAudioStep("p1")
  \/ ReceiveResponse("p1")
  \/ /\ Quiet
     /\ \E u \in Users :
          /\ overall[u].exists \/ RoomForOverall
          /\ GetOverallProgress(u)
  \/ /\ Quiet
     /\ \E u \in Users, l \in Languages : UpdateProfile(u, l)
  \/ /\ Quiet
     /\ \E m \in TrainingNumbers, b \in BOOLEAN : SetModuleActive(m, b)

ProgressSpec == Init /\ [][ProgressNext]_vars

\* A quiz submission is in flight.
QuizInFlight == \E p \in Procs : pc[p] \in {"sq_create", "sq_answers"}

\* The handlers that may still insert a Certificate.
AboutToCertify == {p \in Procs : pc[p] \in {"rc_validate", "rc_create"}}

\* The store has room for the certificate of one more request, or the
\* request of user u inserts none.
RoomForCertificate(u) ==
  \/ Len(certificates) + Cardinality(AboutToCertify) < MaxCertificates
  \/ lang[u] # "FR"
  \/ ValidCertificates(u) # {}

RequestCertificateStep(p) ==
  \/ RequestCertificateValidate(p)
  \/ RequestCertificateCreate(p)
  \/ RequestCertificateGet(p)
  \/ RequestCertificateSave(p)
  \/ RequestCertificateActivity(p)

\* What comes before a certificate request, one request after the other:
\* quiz submissions and progress reads.
CertSetup ==
  \/ /\ Quiet
     /\ RoomForProgress
     /\ \E u \in Users, s \in PassOrFailSubmissions :
          SubmitQuizStart("p1", u, s.module_id, s.answers)
  \/ QuizStep("p1")
  \/ /\ Quiet
     /\ \E u \in Users :
          /\ overall[u].exists \/ RoomForOverall
          /\ GetOverallProgress(u)

\* Concurrent certificate requests.
CertNext ==
  \/ CertSetup
  \/ \E p \in Procs :
       \/ /\ ~QuizInFlight
          /\ \E u \in Users :
               /\ RoomForCertificate(u)
               /\ RequestCertificateStart(p, u, "Ada Lovelace")
       \/ RequestCertificateStep(p)
       \/ ReceiveResponse(p)

CertSpec == Init /\ [][CertNext]_vars

\* Certificate requests, profile and catalogue changes and invalidations,
\* one request after the other.
CertSeqNext ==
  \/ /\ Quiet
     /\ RoomForProgress
     /\ \E u \in Users, s \in PassingSubmissions :
          SubmitQuizStart("p1", u, s.module_id, s.answers)
  \/ QuizStep("p1")
  \/ /\ Quiet
     /\ \E u \in Users :
          /\ overall[u].exists \/ RoomForOverall
          /\ GetOverallProgress(u)
  \/ /\ Quiet
     /\ \E u \in Users, full_name \in FullNames :
          /\ RoomForCertificate(u)
          /\ RequestCertificateStart("p1", u, full_name)
  \/ RequestCertificateStep("p1")
  \/ ReceiveResponse("p1")
  \/ /\ Quiet
     /\ \E u \in Users, l \in Languages : UpdateProfile(u, l)
  \/ /\ Quiet
     /\ \E b \in BOOLEAN : SetModuleActive(2, b)
  \/ /\ Quiet
     /\ \E ids \in SUBSET DOMAIN certificates : InvalidateCertificates(ids)

CertSeqSpec == Init /\ [][CertSeqNext]_vars

\* The store has the ModuleProgress row of (u, m) or room for it.
RoomForReport(u, m) == ProgressRows(u, m) # {} \/ RoomForProgress

\* Audio tracking, one request after the other.
AudioSeqNext ==
  \/ /\ Quiet
     /\ \E u \in Users, mid \in ModuleIdInputs, r \in AudioReports :
          /\ RoomForReport(u, mid)
          /\ TrackAudioStart("p1", u, mid, r.progress_percentage, r.current_time)
  \/ TrackAudioStep("p1")
  \/ ReceiveResponse("p1")

AudioSeqSpec == Init /\ [][AudioSeqNext]_vars

\* Concurrent audio tracking.
AudioNext ==
  \E p \in Procs :
    \/ \E u \in Users, mid \in ModuleIdInputs, r \in AudioReports :
         /\ ProgressRows(u, mid) # {} \/ Cardinality(moduleProgress) < MaxRaceRows
         /\ TrackAudioStart(p, u, mid, r.progress_percentage, r.current_time)
    \/ TrackAudioStep(p)
    \/ ReceiveResponse(p)

AudioSpec == Init /\ [][AudioNext]_vars

\* Certificate requests of users who pass quizzes, listen to audio lessons
\* and change track, one request after the other.
FonCertNext ==
  \/ CertSetup
  \/ /\ Quiet
     /\ \E u \in Users, mid \in TrainingNumbers, r \in CompletingReports :
          /\ RoomForReport(u, mid)
          /\ TrackAudioStart("p1", u, mid, r.progress_percentage, r.current_time)
  \/ TrackAudioStep("p1")
  \/ /\ Quiet
     /\ \E u \in Users :
          /\ RoomForCertificate(u)
          /\ RequestCertificateStart("p1", u, "Ada Lovelace")
  \/ RequestCertificateStep("p1")
  \/ ReceiveResponse("p1")
  \/ /\ Quiet
     /\ \E u \in Users, l \in Languages : UpdateProfile(u, l)
  \/ /\ Quiet
     /\ \E b \in BOOLEAN : SetModuleActive(2, b)

FonCertSpec == Init /\ [][FonCertNext]_vars

\* What a user does alone: quiz submissions, progress reads and certificate
\* requests, one request after the other, with the catalogue as it is.
StatusNext ==
  \/ /\ Quiet
     /\ RoomForAttempt(MaxAttempts)
     /\ \E u \in Users, s \in PassingSubmissions :
          SubmitQuizStart("p1", u, s.module_id, s.answers)
  \/ QuizStep("p1")
  \/ /\ Quiet
     /\ \E u \in Users :
          /\ overall[u].exists \/ RoomForOverall
          /\ GetOverallProgress(u)
  \/ /\ Quiet
     /\ \E u \in Users :
          /\ RoomForCertificate(u)
          /\ RequestCertificateStart("p1", u, "Ada Lovelace")
  \/ RequestCertificateStep("p1")
  \/ ReceiveResponse("p1")

StatusSpec == Init /\ [][StatusNext]_vars

\* Certificates are issued and revoked and anyone verifies codes, one
\* request after the other.
VerifyNext ==
  \/ /\ Quiet
     /\ RoomForProgress
     /\ \E u \in Users, s \in PassingSubmissions :
          SubmitQuizStart("p1", u, s.module_id, s.answers)
  \/ QuizStep("p1")
  \/ /\ Quiet
     /\ \E u \in Users :
          /\ overall[u].exists \/ RoomForOverall
          /\ GetOverallProgress(u)
  \/ /\ Quiet
     /\ \E u \in Users :
          /\ RoomForCertificate(u)
          /\ RequestCertificateStart("p1", u, "Ada Lovelace")
  \/ RequestCertificateStep("p1")
  \/ /\ Quiet
     /\ \E ids \in SUBSET DOMAIN certificates : InvalidateCertificates(ids)
  \/ /\ Quiet
     /\ \E code \in CodeInputs : VerifyCertificate("p1", code)
  \/ ReceiveResponse("p1")

VerifySpec == Init /\ [][VerifyNext]_vars

\* The store has the ModuleProgress row of (u, m) or no row at all.
RoomForDetail(u, m) ==
  ProgressRows(u, m) # {} \/ Cardinality(moduleProgress) < MaxRaceRows

\* Audio tracking and the ModuleProgress endpoints, one request after the
\* other.
DetailNext ==
  \/ /\ Quiet
     /\ \E u \in Users, mid \in TrainingNumbers, r \in AudioReports :
          /\ RoomForDetail(u, mid)
          /\ TrackAudioStart("p1", u, mid, r.progress_percentage, r.current_time)
  \/ TrackAudioStep("p1")
  \/ ReceiveResponse("p1")
  \/ /\ Quiet
     /\ \E u \in Users, mid \in ModuleIdInputs, data \in ProgressUpdates :
          /\ RoomForDetail(u, mid)
          /\ UpdateModuleProgress(u, mid, data)
  \/ /\ Quiet
     /\ \E u \in Users, mid \in ModuleIdInputs :
          /\ RoomForDetail(u, mid)
          /\ MarkModuleStarted(u, mid)

DetailSpec == Init /\ [][DetailNext]_vars

\* Every request, with any input, in any interleaving.
Next ==
  \/ \E p \in Procs :
       \/ /\ RoomForAttempt(MaxAttempts)
          /\ \E u \in Users, mid \in ModuleIdInputs,
                ans \in SeqsUpTo(AnswerInputs, MaxAnswers) :
               SubmitQuizStart(p, u, mid, ans)
       \/ QuizStep(p)
       \/ \E u \in Users, mid \in ModuleIdInputs, pct \in PercentageInputs,
             pos \in PositionInputs :
            TrackAudioStart(p, u, mid, pct, pos)
       \/ TrackAudioStep(p)
       \/ \E u \in Users, full_name \in FullNames :
            /\ RoomForCertificate(u)
            /\ RequestCertificateStart(p, u, full_name)
       \/ RequestCertificateStep(p)
       \/ \E code \in CodeInputs : VerifyCertificate(p, code)
       \/ ReceiveResponse(p)
  \/ \E u \in Users : GetOverallProgress(u)
  \/ \E u \in Users, mid \in ModuleIdInputs, data \in ProgressUpdates :
       UpdateModuleProgress(u, mid, data)
  \/ \E u \in Users, mid \in ModuleIdInputs : MarkModuleStarted(u, mid)
  \/ \E u \in Users, l \in Languages : UpdateProfile(u, l)
  \/ \E m \in ModuleNumbers, b \in BOOLEAN : SetModuleActive(m, b)
  \/ \E ids \in SUBSET DOMAIN certificates : InvalidateCertificates(ids)

Spec == Init /\ [][Next]_vars

\* ------------------------------------------------------------------ claims
\* The UserQuizAnswer rows of attempt i.
AnswersOf(i) == {a \in answers : a.attempt = i}

\* C3: every persisted UserQuizAttempt has is_passed = (score >= 80), the
\* row that submit_quiz creates with score 0 included.
C3_IsPassedIsScoreAtLeast80 ==
  \A i \in DOMAIN attempts :
    attempts[i].is_passed <=> (attempts[i].score.num >= 80 * attempts[i].score.den)

\* An attempt that scored exactly 80 is stored as passed while another
\* submission's attempt still carries its initial score 0.
C3_Witness ==
  /\ \E i \in DOMAIN attempts :
       attempts[i].score = [num |-> 80, den |-> 1] /\ attempts[i].is_passed
  /\ \E p \in Procs :
       /\ pc[p] = "sq_answers"
       /\ attempts[loc[p].attempt].score.num = 0
       /\ ~attempts[loc[p].attempt].is_passed

\* C4: the score of an accepted submission is 100 * earned / possible over
\* the answers stored for the attempt (0 when no point is possible).
C4_ScoreIsEarnedOverPossible ==
  \A p \in Procs :
    resp[p].status = 201 =>
      LET rows == AnswersOf(resp[p].attempt)
          earned == SumOver(rows, [a \in rows |-> a.points_earned])
          possible == SumOver(rows, [a \in rows |-> QuizQuestion[a.question].points])
          score == attempts[resp[p].attempt].score
      IN IF possible > 0
           THEN score.num * possible = 100 * earned * score.den
         ELSE score.num = 0

\* A submission of two answers worth 4 and 1 points, the first one right,
\* was accepted.
C4_Witness ==
  \E p \in Procs :
    /\ resp[p].status = 201
    /\ Cardinality(AnswersOf(resp[p].attempt)) = 2
    /\ \E a, b \in AnswersOf(resp[p].attempt) :
         /\ a.points_earned = 4
         /\ QuizQuestion[b.question].points = 1 /\ b.points_earned = 0

\* C5: an answer is correct iff the selected choices are exactly the correct
\* choices of its question, and it earns the question's points iff correct.
C5_CorrectIffExactSelection ==
  \A a \in answers :
    /\ a.is_correct <=>
         \A c \in ChoiceIds :
           c \in a.selected_choices <=>
             (AnswerChoice[c].question = a.question /\ AnswerChoice[c].is_correct)
    /\ a.points_earned = IF a.is_correct THEN QuizQuestion[a.question].points ELSE 0

\* One of the two correct choices of q1 was selected, and earned nothing.
C5_Witness ==
  \E a \in answers :
    /\ a.question = "q1"
    /\ a.selected_choices = {"c1"}
    /\ ~a.is_correct /\ a.points_earned = 0

\* C8: submissions that do not overlap number the attempts of every
\* (user, module) 1..n in the order of their creation.
C8_AttemptNumbersAreSequential ==
  \A u \in Users, m \in ModuleNumbers :
    \A i \in AttemptsOf(u, m) :
      attempts[i].attempt_number = Cardinality({j \in AttemptsOf(u, m) : j <= i})

\* A user has two attempts on module 1 that follow an attempt on module 2.
C8_Witness ==
  \E u \in Users :
    /\ Quiet
    /\ Cardinality(AttemptsOf(u, 1)) = 2
    /\ \E i \in AttemptsOf(u, 2) : \A j \in AttemptsOf(u, 1) : i < j

\* C9: no two UserQuizAttempt rows share (user, module, attempt_number).
C9_AttemptKeyIsUnique ==
  \A i, j \in DOMAIN attempts :
    (/\ attempts[i].user = attempts[j].user
     /\ attempts[i].module = attempts[j].module
     /\ attempts[i].attempt_number = attempts[j].attempt_number) => i = j

\* Two concurrent submissions computed the same attempt number and the
\* second insert was refused.
C9_Witness ==
  \E p \in Procs : resp[p] = [status |-> 500, op |-> "submit_quiz",
                              error |-> "IntegrityError(attempt_number)"]

\* C10: concurrent valid submissions for one (user, module) are all
\* persisted; none fails on an attempt-number conflict.
C10_NoSubmissionFailsOnConflict ==
  \A p \in Procs :
    ~(resp[p].status = 500 /\ resp[p].error = "IntegrityError(attempt_number)")

\* The active training modules user u has completed under the rule of the
\* user's track: a passed attempt (French), a completed ModuleProgress (Fon).
ModulesCompleted(u) ==
  {m \in TrainingModules :
     IF lang[u] = "FR"
       THEN \E i \in DOMAIN attempts :
              attempts[i].user = u /\ attempts[i].module = m /\ attempts[i].is_passed
     ELSE \E r \in moduleProgress : r.user = u /\ r.module = m /\ r.is_completed}

\* C6: after update_progress, completed_modules is the number of active
\* training modules the user has completed under the rule of the user's track.
C6_CompletedModulesCountsModules ==
  [][\A u \in Users :
       GetOverallProgress(u) =>
         overall'[u].completed_modules = Cardinality(ModulesCompleted(u))']_vars

\* C7: after update_progress, total_modules is the number of active training
\* modules, completion_percentage is completed_modules / total_modules * 100,
\* and can_get_certificate holds iff completed_modules = total_modules, that
\* is, iff the user has completed every active training module.
C7_TotalsPercentageAndEligibility ==
  [][\A u \in Users :
       GetOverallProgress(u) =>
         LET row == overall'[u]
         IN /\ row.total_modules = Cardinality(TrainingModules)'
            /\ row.completion_percentage.num * row.total_modules
                 = 100 * row.completed_modules * row.completion_percentage.den
            /\ row.can_get_certificate <=> (row.completed_modules = row.total_modules)
            /\ row.can_get_certificate <=> (ModulesCompleted(u) = TrainingModules)']_vars

\* The equations of C7 between the stored fields alone.
C7_StoredFieldsAgree ==
  [][\A u \in Users :
       GetOverallProgress(u) =>
         LET row == overall'[u]
         IN /\ row.total_modules = Cardinality(TrainingModules)'
            /\ row.total_modules > 0 =>
                 row.completion_percentage = Frac(100 * row.completed_modules, row.total_modules)
            /\ row.can_get_certificate <=> (row.completed_modules = row.total_modules)]_vars


\* The valid certificates of user u.
ValidCertificatesOf(u) ==
  {i \in DOMAIN certificates : certificates[i].user = u /\ certificates[i].is_valid}

\* No user has two valid certificates.
AtMostOneValidCertificate ==
  \A u \in Users : Cardinality(ValidCertificatesOf(u)) <= 1

\* The request of user u that process p starts in this step is answered in
\* the same step with a valid certificate the user already has, and the
\* Certificate table is left as it is.
ReturnsExistingCertificate(p, u) ==
  /\ certificates' = certificates
  /\ pc'[p] = "idle"
  /\ resp'[p].status = 200
  /\ resp'[p].op = "request_certificate"
  /\ resp'[p].kind = "existing"
  /\ resp'[p].certificate \in ValidCertificatesOf(u)

\* C1 as stated: a request_certificate call of a user who has a valid
\* certificate returns that certificate and creates none, whatever the
\* user's track and eligibility; after any sequence of non-overlapping
\* calls no user has two valid certificates.
C1_ExistingCertificateWhateverTheTrack ==
  [][/\ \A u \in Users, full_name \in FullNames :
          (ValidCertificatesOf(u) # {} /\ RequestCertificateStart("p1", u, full_name))
            => ReturnsExistingCertificate("p1", u)
     /\ AtMostOneValidCertificate']_vars

\* C1: a request_certificate call of a French-track user who has a valid
\* certificate returns that certificate and creates none, whatever the
\* user's eligibility; after any sequence of non-overlapping calls no user
\* has two valid certificates.
C1_ExistingCertificateOnFrenchTrack ==
  [][/\ \A u \in Users, full_name \in FullNames :
          (/\ lang[u] = "FR"
           /\ ValidCertificatesOf(u) # {}
           /\ RequestCertificateStart("p1", u, full_name))
            => ReturnsExistingCertificate("p1", u)
     /\ AtMostOneValidCertificate']_vars

\* A user who no longer meets the eligibility rule has been answered with
\* the valid certificate issued before, while an invalidated one is on file.
C1_Witness ==
  /\ resp["p1"].status = 200
  /\ resp["p1"].op = "request_certificate"
  /\ resp["p1"].kind = "existing"
  /\ LET c == certificates[resp["p1"].certificate]
     IN /\ c.is_valid
        /\ lang[c.user] = "FR"
        /\ ~CertificateRequestIsValid(c.user, c.full_name)
        /\ \E i \in DOMAIN certificates :
             certificates[i].user = c.user /\ ~certificates[i].is_valid

\* C2: with concurrent request_certificate calls no user has two valid
\* certificates, and a caller that is handed a certificate is handed the
\* valid certificate of its user.
C2_ConcurrentRequestsIssueOneCertificate ==
  /\ AtMostOneValidCertificate
  /\ \A p \in Procs :
       (/\ resp[p].status \in {200, 201}
        /\ resp[p].op = "request_certificate"
        /\ resp[p].kind \in {"existing", "created"})
         => resp[p].certificate \in ValidCertificatesOf(certificates[resp[p].certificate].user)


\* The greatest element of a non-empty set of numbers.
MaxOf(S) == CHOOSE x \in S : \A y \in S : y <= x

\* The stored percentage of (u, m) is the greatest percentage reported.
StoredIsMaximumReported(u, m) ==
  reported[u][m] # {} =>
    \E r \in ProgressRows(u, m) : r.progress_percentage = MaxOf(reported[u][m])

\* This step belongs to a track_audio_progress call of process p for
\* (u, m) that carries a percentage not greater than pct.
ReportsAtMost(p, u, m, pct) ==
  \/ \E r \in AudioReports :
       /\ r.progress_percentage <= pct
       /\ TrackAudioStart(p, u, m, r.progress_percentage, r.current_time)
  \/ /\ pc[p] \in {"ta_update", "ta_complete"}
     /\ loc[p].user = u /\ loc[p].module = m
     /\ loc[p].pct <= pct
     /\ TrackAudioStep(p)

\* C11: after non-overlapping track_audio_progress calls the stored
\* progress_percentage of a (user, module) is the greatest percentage
\* reported for it, and a call whose percentage is not greater than the
\* stored one changes neither progress_percentage nor last_audio_position.
C11_StoredPercentageIsMaximum ==
  [][/\ Quiet' => \A u \in Users, m \in ModuleNumbers : StoredIsMaximumReported(u, m)'
     /\ \A r \in moduleProgress :
          ReportsAtMost("p1", r.user, r.module, r.progress_percentage) =>
            \E n \in ProgressRows(r.user, r.module)' :
              /\ n.progress_percentage = r.progress_percentage
              /\ n.last_audio_position = r.last_audio_position]_vars

\* A report of 50 has passed the comparison against a stored 100 and has
\* left the row with the position of the report of 100.
C11_Witness ==
  /\ pc["p1"] = "ta_complete"
  /\ loc["p1"].pct = 50
  /\ ~loc["p1"].created
  /\ \E r \in ProgressRows(loc["p1"].user, loc["p1"].module) :
       /\ r.progress_percentage = 100
       /\ r.last_audio_position = 4
       /\ reported[r.user][r.module] = {0, 50, 100}

\* C12: with concurrent track_audio_progress calls the stored
\* progress_percentage of a (user, module) never decreases, and once the
\* calls have returned it is the greatest percentage reported.
C12_ConcurrentReportsNeverRegress ==
  [][/\ \A r \in moduleProgress :
          \E n \in ProgressRows(r.user, r.module)' :
            n.progress_percentage >= r.progress_percentage
     /\ Quiet' => \A u \in Users, m \in ModuleNumbers : StoredIsMaximumReported(u, m)']_vars

\* C13: after non-overlapping track_audio_progress calls a row is completed
\* iff a report of 100 or more was made for it, iff its stored percentage is
\* 100; completed_at is set iff the row is completed; a further report of
\* 100 leaves a completed row completed.
C13_CompletedIffReportedHundred ==
  [][/\ Quiet' =>
          \A r \in moduleProgress' :
            /\ r.is_completed <=> (\E pct \in reported'[r.user][r.module] : pct >= 100)
            /\ r.is_completed <=> (r.progress_percentage = 100)
     /\ \A r \in moduleProgress' : (r.completed_at # Null) <=> r.is_completed
     /\ \A r \in moduleProgress :
          (r.is_completed /\ TrackAudioStep("p1")) =>
            \E n \in ProgressRows(r.user, r.module)' : n.is_completed]_vars

\* A further report of 100 for a row that is already completed has passed
\* the comparison and is about to mark the row completed again.
C13_Witness ==
  /\ pc["p1"] = "ta_complete"
  /\ loc["p1"].pct = 100
  /\ ~loc["p1"].created
  /\ \E r \in ProgressRows(loc["p1"].user, loc["p1"].module) :
       r.is_completed /\ r.completed_at = {0} /\ now = 1


\* User u has a passed attempt on every active training module.
PassedEveryTrainingModule(u) ==
  \A m \in TrainingModules :
    \E i \in DOMAIN attempts :
      attempts[i].user = u /\ attempts[i].module = m /\ attempts[i].is_passed

\* C14: request_certificate creates a Certificate for a French-track user
\* only if the user has a passed attempt on every active training module;
\* otherwise it answers 400 and leaves Certificate, OverallProgress and
\* UserActivity as they are.
C14_CertificateOnlyWhenAllModulesPassed ==
  [][/\ (RequestCertificateCreate("p1") /\ Len(certificates') > Len(certificates))
          => PassedEveryTrainingModule(loc["p1"].user)
     /\ (RequestCertificateValidate("p1") /\ ~PassedEveryTrainingModule(loc["p1"].user))
          => /\ resp'["p1"].status = 400
             /\ UNCHANGED <<certificates, overall, activities>>]_vars

\* C15: request_certificate of a user on the Fon track answers with the
\* manual-verification payload and neither creates nor returns a
\* Certificate, whatever the user has listened to.
C15_FonTrackGetsInstructionsOnly ==
  [][\A u \in Users :
       (lang[u] = "FON" /\ RequestCertificateStart("p1", u, "Ada Lovelace"))
         => /\ pc'["p1"] = "idle"
            /\ resp'["p1"].status = 200
            /\ resp'["p1"].op = "request_certificate"
            /\ resp'["p1"].kind = "fon"
            /\ UNCHANGED <<certificates, overall, activities>>]_vars

\* The only Fon-track user has completed every audio lesson and holds a
\* valid certificate from the time on the French track, and has been
\* answered with the payload that reports the lessons as complete.
C15_Witness ==
  /\ resp["p1"].status = 200
  /\ resp["p1"].op = "request_certificate"
  /\ resp["p1"].kind = "fon"
  /\ resp["p1"].is_eligible
  /\ resp["p1"].total_modules > 0
  /\ \E u \in Users :
       /\ lang[u] = "FON"
       /\ \A v \in Users \ {u} : lang[v] = "FR"
       /\ ValidCertificatesOf(u) # {}
       /\ \A m \in TrainingModules :
            \E r \in ProgressRows(u, m) : r.is_completed


\* C16: no two Certificate rows share a verification_code, and every code is
\* a string of 12 characters, each an uppercase letter or a digit.
C16_CodesAreUniqueAndWellFormed ==
  /\ \A i, j \in DOMAIN certificates :
       certificates[i].verification_code = certificates[j].verification_code => i = j
  /\ \A i \in DOMAIN certificates :
       LET code == certificates[i].verification_code
       IN /\ Len(code) = 12
          /\ \A k \in 1..Len(code) : code[k] \in CodeAlphabet

\* A certificate is on file and a second issuance has drawn its code and
\* has been refused by the uniqueness constraint.
C16_Witness ==
  /\ Len(certificates) = 1
  /\ \E p \in Procs :
       /\ resp[p].status = 500
       /\ resp[p].error = "IntegrityError(verification_code)"

\* C17: an issuance whose verification code collides with the code of an
\* existing certificate draws again and still issues the certificate; it
\* does not fail at the first collision.
C17_CollisionIsRetried ==
  [][\A p \in Procs :
       RequestCertificateCreate(p) =>
         /\ resp'[p].status # 500
         /\ Len(certificates') = Len(certificates) + 1]_vars


\* C18: an update_progress that finds completed_at null sets it exactly when
\* it computes can_get_certificate = true, and an update_progress that finds
\* it set leaves it as it is, whatever it computes.
C18_CompletedAtIsLatched ==
  [][\A u \in Users :
       GetOverallProgress(u) =>
         LET before == IF overall[u].exists THEN overall[u].completed_at ELSE Null
             after == overall'[u]
         IN IF before # Null THEN after.completed_at = before
            ELSE IF after.can_get_certificate THEN after.completed_at = {now'}
            ELSE after.completed_at = Null]_vars

\* A user who was eligible at an earlier recompute is no longer eligible at
\* the last one and keeps the earlier completed_at.
C18_Witness ==
  \E u \in Users :
    /\ overall[u].exists
    /\ ~overall[u].can_get_certificate
    /\ overall[u].completed_at = {0}
    /\ now = 1

\* C19: an update_progress that follows an update_progress with no write in
\* between yields the same completed_modules, total_modules,
\* completion_percentage and can_get_certificate.
C19_RecomputeIsIdempotent ==
  \A u \in Users :
    \A t1 \in ClockReadings : \A t2 \in {t1, t1 + 1} :
      LET first == UpdateProgress(IF overall[u].exists THEN overall[u]
                                  ELSE DefaultOverall, u, t1)
          second == UpdateProgress(first, u, t2)
      IN /\ second.completed_modules = first.completed_modules
         /\ second.total_modules = first.total_modules
         /\ second.completion_percentage = first.completion_percentage
         /\ second.can_get_certificate = first.can_get_certificate

\* A recompute has found no active training module and has left the
\* percentage of an earlier recompute in place.
C19_Witness ==
  \E u \in Users :
    /\ overall[u].exists
    /\ overall[u].total_modules = 0
    /\ overall[u].completion_percentage = Frac(50, 1)

\* What update_progress would store for user u in this state.
Recompute(u) ==
  UpdateProgress(IF overall[u].exists THEN overall[u] ELSE DefaultOverall, u, now)

\* C20: while users only submit quizzes, read their progress and request
\* certificates, for a French-track user each recompute finds at least the
\* completed_modules of the recompute before it, finds can_get_certificate
\* true if the one before did, and a certificate is issued only when a
\* recompute yields can_get_certificate = true.
C20_StatusOnlyMovesForward ==
  [][\A u \in Users :
       lang[u] = "FR" =>
         /\ (GetOverallProgress(u) /\ overall[u].exists) =>
              /\ overall'[u].completed_modules >= overall[u].completed_modules
              /\ overall[u].can_get_certificate => overall'[u].can_get_certificate
         /\ (/\ Len(certificates') > Len(certificates)
             /\ certificates'[Len(certificates')].user = u)
              => Recompute(u).can_get_certificate]_vars

\* C21: a user to whom a certificate was issued never gets a second
\* Certificate record, whatever requests, submissions, recomputes and
\* administrative revocations follow.
C21_IssuedIsTerminal ==
  \A i, j \in DOMAIN certificates :
    certificates[i].user = certificates[j].user => i = j

\* C25: every Certificate records as total_modules_completed the number of
\* active training modules at its issuance, which is at least 1.
C25_CertificateCountsTrainingModules ==
  [][\A p \in Procs :
       (RequestCertificateCreate(p) /\ Len(certificates') > Len(certificates)) =>
         LET c == certificates'[Len(certificates')]
         IN /\ c.total_modules_completed = Cardinality(TrainingModules)
            /\ c.total_modules_completed >= 1]_vars

\* C27: a user who holds a Certificate has an OverallProgress row with
\* certificate_requested = true and a CERTIFICATE_REQUEST activity, once
\* the request that created the certificate has ended.
C27_CertificateComesWithItsRecords ==
  \A i \in DOMAIN certificates :
    LET u == certificates[i].user
    IN (\A p \in Procs : pc[p] = "idle") =>
         /\ overall[u].exists
         /\ overall[u].certificate_requested
         /\ \E a \in activities :
              a.user = u /\ a.activity_type = "CERTIFICATE_REQUEST"

\* The active training modules user u has completed under the rule of the
\* user's track.
CompletedUnderTrackRule(u) ==
  {m \in TrainingModules :
     IF lang[u] = "FR"
       THEN \E i \in DOMAIN attempts :
              attempts[i].user = u /\ attempts[i].module = m /\ attempts[i].is_passed
     ELSE \E r \in moduleProgress : r.user = u /\ r.module = m /\ r.is_completed}

\* C22: get_next_module returns the active training module with the
\* smallest number that is not completed under the track rule, and returns
\* null exactly when an immediate recompute yields can_get_certificate.
C22_NextModuleIsNullIffEligible ==
  \A u \in Users :
    LET left == TrainingModules \ CompletedUnderTrackRule(u)
    IN /\ \A m \in GetNextModule(u) : m \in left /\ \A n \in left : m <= n
       /\ GetNextModule(u) = Null <=> left = {}
       /\ GetNextModule(u) = Null <=> Recompute(u).can_get_certificate

\* A submission none of the listed grounds for rejection applies to: the
\* module exists, is active and is not the reporting module, the answer
\* list is not empty, every question belongs to the module, every selected
\* choice belongs to its question, a SINGLE question has at most one choice.
WellFormedSubmission(mid, ans) ==
  /\ mid \in ModuleNumbers
  /\ mid \in active
  /\ mid # ReportingModuleNumber
  /\ Len(ans) > 0
  /\ \A i \in DOMAIN ans :
       /\ QuizQuestion[ans[i].question].module = mid
       /\ ans[i].selected_choices \subseteq ChoicesOf(ans[i].question)
       /\ QuizQuestion[ans[i].question].question_type = "SINGLE"
            => Cardinality(ans[i].selected_choices) <= 1

\* C23: submit_quiz goes on to persist an attempt only for a submission
\* that none of the listed grounds for rejection applies to.
C23_MalformedSubmissionsAreRejected ==
  [][\A p \in Procs :
       (pc[p] = "idle" /\ pc'[p] = "sq_create") =>
         WellFormedSubmission(loc'[p].module, loc'[p].answers)]_vars

\* C28: a submit_quiz call that ends without a success response leaves no
\* UserQuizAttempt and no UserQuizAnswer row behind (the store is empty
\* when the call starts).
C28_FailedSubmissionLeavesNoRows ==
  \A p \in Procs :
    (/\ resp[p].status \notin {0, 201}
     /\ resp[p].op = "submit_quiz"
     /\ Len(attempts) <= 1)
      => attempts = <<>> /\ answers = {}

\* C30: every attempt of a successful submission has as many scored
\* answers as total_questions, correct_answers <= total_questions, and
\* is passed only if every active question of the module was answered.
C30_EveryQuestionIsAnswered ==
  \A p \in Procs :
    (resp[p].status = 201 /\ resp[p].op = "submit_quiz") =>
      LET a == attempts[resp[p].attempt]
          answered == {r.question : r \in AnswersOf(resp[p].attempt)}
      IN /\ Cardinality(AnswersOf(resp[p].attempt)) = a.total_questions
         /\ a.correct_answers <= a.total_questions
         /\ a.is_passed => GetQuizQuestions(a.module) \subseteq answered

\* C26: a ModuleProgress record that is completed stays completed, with
\* its completed_at, whatever concurrent track_audio_progress calls do.
C26_CompletionIsNeverOverwritten ==
  [][\A r \in moduleProgress :
       r.is_completed =>
         \E r2 \in moduleProgress' :
           /\ r2.user = r.user /\ r2.module = r.module
           /\ r2.is_completed
           /\ r2.completed_at # Null]_vars

\* C24: verify_certificate answers is_valid = true with the certificate's
\* fields exactly when a certificate with that code exists and is valid,
\* answers is_valid = false with status 404 otherwise, and writes nothing.
C24_VerifyReportsValidCertificatesOnly ==
  [][\A p \in Procs, code \in CodeInputs :
       VerifyCertificate(p, code) =>
         LET r == resp'[p]
             found == {i \in DOMAIN certificates :
                         certificates[i].verification_code = code}
         IN /\ UNCHANGED storeVars
            /\ r.is_valid <=> \E i \in found : certificates[i].is_valid
            /\ r.is_valid => /\ r.status = 200
                             /\ \E i \in found :
                                  /\ certificates[i].is_valid
                                  /\ r.certificate.verification_code = code
                                  /\ r.certificate.full_name = certificates[i].full_name
                                  /\ r.certificate.completion_date =
                                       certificates[i].completion_date
                                  /\ r.certificate.total_modules_completed =
                                       certificates[i].total_modules_completed
                                  /\ r.certificate.average_score =
                                       certificates[i].average_score
            /\ ~r.is_valid => r.status = 404]_vars

\* A verification of the code of a revoked certificate was answered 404.
C24_Witness ==
  \E p \in Procs :
    /\ resp[p].status = 404
    /\ resp[p].op = "verify_certificate"
    /\ \E i \in DOMAIN certificates :
         /\ certificates[i].verification_code = resp[p].requested_code
         /\ ~certificates[i].is_valid

\* C29: a ModuleProgress record is completed only if a track_audio_progress
\* call reported 100 or more for it, and no operation lowers a stored
\* progress_percentage.
C29_OnlyAudioCompletesAndNothingRegresses ==
  [][\A r \in moduleProgress' :
       /\ r.is_completed => \E pct \in reported'[r.user][r.module] : pct >= 100
       /\ \A r0 \in ProgressRows(r.user, r.module) :
            r.progress_percentage >= r0.progress_percentage]_vars

====
